---- MODULE Spec2Model ----
(***************************************************************************)
(* bin/latex_to_unicode.py: detex (escape %, decode LaTeX, drop soft       *)
(* hyphens), detex_node (rebuild an element with $...$ spans turned into   *)
(* <tex-math> children) and the main loop that replaces each selected      *)
(* field of each paper in place and then writes the document.              *)
(*                                                                         *)
(* Strings are sequences of one-character strings.  Python's None is the   *)
(* empty tuple and a present string s is <<s>>.  Elements live in a heap   *)
(* (a sequence of objects, an object's identity is its index) and their    *)
(* attribute dictionaries in a second heap, so that aliasing and in-place  *)
(* mutation are visible.                                                   *)
(***************************************************************************)
EXTENDS Integers, Sequences, FiniteSets, TLC

\* Longest text segment drawn in the segment-level specification.
MaxLen == 4
\* Most papers in a document of the document-level specification.
MaxPapers == 2

BS == "\\"
PCT == "%"
DOL == "$"
\* Stand-in for U+00AD, the soft hyphen.
SHY == "-"
Alphabet == {BS, PCT, DOL, SHY, "x"}

None == <<>>
Some(s) == <<s>>

Strings(n) == UNION {[1..k -> Alphabet] : k \in 0..n}

VARIABLES heap, dicts, pc, infile, fieldArgs, outfile, pi, fi, node, newnode,
          orig, mod, diag, output, segCtx, segT, segS, toDecoder

vars == <<heap, dicts, pc, infile, fieldArgs, outfile, pi, fi, node, newnode,
          orig, mod, diag, output, segCtx, segT, segS, toDecoder>>

(***************************************************************************)
(* detex                                                                   *)
(***************************************************************************)

\* re.sub(r'(?<!\\)%', r'\%', s): the lookbehind reads the input string.
RECURSIVE EscapeFrom(_, _)
EscapeFrom(s, i) ==
    IF i > Len(s) THEN <<>>
    ELSE (IF s[i] = PCT /\ ~(i > 1 /\ s[i - 1] = BS)
          THEN <<BS, PCT>> ELSE <<s[i]>>) \o EscapeFrom(s, i + 1)

RECURSIVE EscapeAllFrom(_, _)
EscapeAllFrom(s, i) ==
    IF i > Len(s) THEN <<>>
    ELSE (IF s[i] = PCT THEN <<BS, PCT>> ELSE <<s[i]>>) \o EscapeAllFrom(s, i + 1)

EscapeAll(s) == EscapeAllFrom(s, 1)

Escape(s) == EscapeFrom(s, 1)

\* codecs.decode(s, "ulatex+utf8"), the external decoder: a bare % starts a
\* comment that runs to the end of the text, \% and \$ become % and $, any
\* other control sequence is left as it is.
RECURSIVE DecodeFrom(_, _)
DecodeFrom(s, i) ==
    IF i > Len(s) THEN <<>>
    ELSE IF s[i] = PCT THEN <<>>
    ELSE IF s[i] = BS /\ i < Len(s)
         THEN (IF s[i + 1] \in {PCT, DOL} THEN <<s[i + 1]>> ELSE <<BS, s[i + 1]>>)
              \o DecodeFrom(s, i + 2)
    ELSE <<s[i]>> \o DecodeFrom(s, i + 1)

Decode(s) == DecodeFrom(s, 1)

\* s.replace('\xad', '')
RemoveShy(s) == SelectSeq(s, LAMBDA c : c # SHY)

detex(o) == IF o = None THEN None ELSE Some(RemoveShy(Decode(Escape(o[1]))))

(***************************************************************************)
(* math_re.finditer                                                        *)
(***************************************************************************)

\* Index of the first $ of text at or after i, 0 when there is none.
RECURSIVE NextDollar(_, _)
NextDollar(text, i) ==
    IF i > Len(text) THEN 0
    ELSE IF text[i] = DOL THEN i ELSE NextDollar(text, i + 1)

\* The matches of \$([^\$]*)\$ from position pos on, left to right and
\* non-overlapping; s and e are the positions of the two delimiters.
RECURSIVE FinditerFrom(_, _)
FinditerFrom(text, pos) ==
    LET s == NextDollar(text, pos)
        e == IF s = 0 THEN 0 ELSE NextDollar(text, s + 1)
    IN IF s = 0 \/ e = 0 THEN <<>>
       ELSE <<[s |-> s, e |-> e]>> \o FinditerFrom(text, e + 1)

Finditer(text) == FinditerFrom(text, 1)

(***************************************************************************)
(* Elements.  A state st is [heap, dicts, ret]: the objects, the attribute *)
(* dictionaries, and the value the last call returned.                     *)
(***************************************************************************)

\* Element(tag, attrib) with the dictionary d shared, not copied.
ElementAliased(st, tag, d) ==
    LET new == [tag |-> tag, attrib |-> d, text |-> None, tail |-> None,
                children |-> <<>>]
    IN IF d = 0
       THEN [heap |-> Append(st.heap, [new EXCEPT !.attrib = Len(st.dicts) + 1]),
             dicts |-> Append(st.dicts, <<>>), ret |-> Len(st.heap) + 1]
       ELSE [heap |-> Append(st.heap, new), dicts |-> st.dicts,
             ret |-> Len(st.heap) + 1]

\* xml.etree.ElementTree.Element(tag, attrib): a new object whose attribute
\* dictionary is a fresh copy of dictionary d (empty when d = 0).
Element(st, tag, d) ==
    LET new == [tag |-> tag, attrib |-> Len(st.dicts) + 1, text |-> None,
                tail |-> None, children |-> <<>>]
    IN [heap |-> Append(st.heap, new),
        dicts |-> Append(st.dicts, IF d = 0 THEN <<>> ELSE st.dicts[d]),
        ret |-> Len(st.heap) + 1]

\* append_text that always writes the new node's text.
append_text_to_text(st, nn, text) ==
    [st EXCEPT !.heap[nn].text = Some(text)]

append_text(st, nn, text) ==
    LET kids == st.heap[nn].children
    IN IF Len(kids) = 0
       THEN [st EXCEPT !.heap[nn].text = Some(text)]
       ELSE [st EXCEPT !.heap[kids[Len(kids)]].tail = Some(text)]

\* newnode.append(child)
append(st, nn, child) == [st EXCEPT !.heap[nn].children = Append(@, child)]

\* The for loop of append_math over the matches ms from match k on, then the
\* trailing append_text.
RECURSIVE append_math_loop(_, _, _, _, _, _)
append_math_loop(st, nn, text, ms, k, prev) ==
    IF k > Len(ms) THEN append_text(st, nn, SubSeq(text, prev, Len(text)))
    ELSE LET m == ms[k]
             s1 == append_text(st, nn, SubSeq(text, prev, m.s - 1))
             s2 == Element(s1, "tex-math", 0)
             s3 == [s2 EXCEPT !.heap[s2.ret].text =
                                  Some(SubSeq(text, m.s + 1, m.e - 1))]
             s4 == append(s3, nn, s2.ret)
         IN append_math_loop(s4, nn, text, ms, k + 1, m.e + 1)

\* append_math without the append_text after the last match.
RECURSIVE append_math_no_trailing(_, _, _)
append_math_no_trailing(st, nn, o) ==
    IF o = None \/ Finditer(o[1]) = <<>> THEN st
    ELSE LET text == o[1]
             m == Finditer(text)[1]
             s1 == append_text(st, nn, SubSeq(text, 1, m.s - 1))
             s2 == Element(s1, "tex-math", 0)
             s3 == [s2 EXCEPT !.heap[s2.ret].text =
                                  Some(SubSeq(text, m.s + 1, m.e - 1))]
             s4 == append(s3, nn, s2.ret)
         IN append_math_no_trailing(s4, nn, Some(SubSeq(text, m.e + 1, Len(text))))

append_math(st, nn, o) ==
    IF o = None THEN st
    ELSE append_math_loop(st, nn, o[1], Finditer(o[1]), 1, 1)

RECURSIVE detex_node(_, _)
RECURSIVE detex_children(_, _, _, _)

\* The loop "for child in node" of detex_node from child i on.
detex_children(st, n, nn, i) ==
    IF i > Len(st.heap[n].children) THEN st
    ELSE LET child == st.heap[n].children[i]
             s1 == detex_node(st, child)
             s2 == append(s1, nn, s1.ret)
             s3 == append_math(s2, nn, detex(s2.heap[child].tail))
         IN detex_children(s3, n, nn, i + 1)

detex_node(st, n) ==
    IF n = 0 THEN [st EXCEPT !.ret = 0]
    ELSE LET s0 == Element(st, st.heap[n].tag, st.heap[n].attrib)
             nn == s0.ret
             s1 == append_math(s0, nn, detex(s0.heap[n].text))
             s2 == detex_children(s1, n, nn, 1)
         IN [s2 EXCEPT !.heap[nn].tail = s2.heap[n].tail, !.ret = nn]

(***************************************************************************)
(* node_tostring: the serialization, as a sequence of tokens.  The         *)
(* alphabet has no white space and no character XML escapes, so the        *)
(* white-space collapse and the escaping leave the tokens as they are.     *)
(***************************************************************************)

RECURSIVE SerAttrs(_, _)
SerAttrs(d, i) ==
    IF i > Len(d) THEN <<>>
    ELSE <<" ", d[i][1], "=", d[i][2]>> \o SerAttrs(d, i + 1)

OptStr(o) == IF o = None THEN <<>> ELSE o[1]

RECURSIVE Ser(_, _)
RECURSIVE SerKids(_, _, _)
SerKids(st, kids, i) ==
    IF i > Len(kids) THEN <<>> ELSE Ser(st, kids[i]) \o SerKids(st, kids, i + 1)

Ser(st, n) ==
    LET o == st.heap[n]
        open == <<"<", o.tag>> \o SerAttrs(st.dicts[o.attrib], 1)
    IN (IF OptStr(o.text) = <<>> /\ o.children = <<>>
        THEN open \o <<" />">>
        ELSE open \o <<">">> \o OptStr(o.text) \o SerKids(st, o.children, 1)
                  \o <<"</", o.tag, ">">>)
       \o OptStr(o.tail)

node_tostring(st, n) == IF n = 0 THEN <<>> ELSE Ser(st, n)

(***************************************************************************)
(* The input document.  A document is a tree of records                    *)
(* [tag, attrib, text, tail, children]; xml.etree.ElementTree.parse loads  *)
(* it into the heap, parents before children.                              *)
(***************************************************************************)

Tree(tag, attrib, text, kids, tail) ==
    [tag |-> tag, attrib |-> attrib, text |-> text, tail |-> tail,
     children |-> kids]

RECURSIVE Load(_, _)
RECURSIVE LoadKids(_, _, _, _)
LoadKids(st, parent, kids, i) ==
    IF i > Len(kids) THEN st
    ELSE LET s1 == Load(st, kids[i])
         IN LoadKids(append(s1, parent, s1.ret), parent, kids, i + 1)

Load(st, t) ==
    LET me == Len(st.heap) + 1
        s0 == [heap |-> Append(st.heap,
                          [tag |-> t.tag, attrib |-> Len(st.dicts) + 1,
                           text |-> t.text, tail |-> t.tail, children |-> <<>>]),
               dicts |-> Append(st.dicts, t.attrib), ret |-> me]
    IN [LoadKids(s0, me, t.children, 1) EXCEPT !.ret = me]

Empty == [heap |-> <<>>, dicts |-> <<>>, ret |-> 0]

\* Element.find(tag): the first child of n with that tag, 0 when there is none.
RECURSIVE FindFrom(_, _, _, _)
FindFrom(st, n, tag, i) ==
    IF i > Len(st.heap[n].children) THEN 0
    ELSE IF st.heap[st.heap[n].children[i]].tag = tag
         THEN st.heap[n].children[i]
         ELSE FindFrom(st, n, tag, i + 1)

find(st, n, tag) == FindFrom(st, n, tag, 1)

\* Element.findall(tag): the children of n with that tag, in order.
findall(st, n, tag) ==
    SelectSeq(st.heap[n].children, LAMBDA c : st.heap[c].tag = tag)

St == [heap |-> heap, dicts |-> dicts, ret |-> 0]

(***************************************************************************)
(* Segment level: detex_node, statement by statement, on a field whose     *)
(* one text segment segT is either the field's text or the tail of its     *)
(* only child.                                                             *)
(***************************************************************************)

SegField(ctx, t) ==
    IF ctx = "text"
    THEN Tree("title", <<>>, Some(t), <<>>, None)
    ELSE Tree("title", <<>>, None, <<Tree("i", <<>>, None, <<>>, Some(t))>>, None)

SegInit ==
    /\ segCtx \in {"text", "tail"}
    /\ segT \in Strings(MaxLen)
    /\ LET s == Load(Empty, SegField(segCtx, segT))
       IN heap = s.heap /\ dicts = s.dicts /\ node = s.ret
    /\ pc = "seg_enter"
    /\ newnode = 0
    /\ segS = None
    /\ toDecoder = None
    /\ infile = None
    /\ fieldArgs = <<>>
    /\ outfile = None
    /\ pi = 0
    /\ fi = 0
    /\ orig = <<>>
    /\ mod = <<>>
    /\ diag = <<>>
    /\ output = None

mainVars == <<infile, fieldArgs, outfile, pi, fi, orig, mod, diag, output>>

\* Lines 38 and 57-59: the new element and, before a child's tail is
\* reached, the field's (absent) text and the transformed child.
SegEnter ==
    /\ pc = "seg_enter"
    /\ LET s0 == Element(St, heap[node].tag, heap[node].attrib)
           nn == s0.ret
           s1 == append_math(s0, nn, detex(s0.heap[node].text))
           child == heap[node].children[1]
           s2 == detex_node(s1, child)
           s3 == append(s2, nn, s2.ret)
       IN IF segCtx = "text"
          THEN /\ heap' = s0.heap /\ dicts' = s0.dicts /\ newnode' = nn
               /\ segS' = s0.heap[node].text
          ELSE /\ heap' = s3.heap /\ dicts' = s3.dicts /\ newnode' = nn
               /\ segS' = s3.heap[child].tail
    /\ pc' = "seg_escape"
    /\ UNCHANGED <<mainVars, node, segCtx, segT, toDecoder>>

\* Line 23.
SegEscape ==
    /\ pc = "seg_escape"
    /\ segS' = Some(Escape(segS[1]))
    /\ toDecoder' = segS'
    /\ pc' = "seg_decode"
    /\ UNCHANGED <<mainVars, heap, dicts, node, newnode, segCtx, segT>>

\* Line 28, the decoder returns.
SegDecode ==
    /\ pc = "seg_decode"
    /\ segS' = Some(Decode(segS[1]))
    /\ pc' = "seg_cleanup"
    /\ UNCHANGED <<mainVars, heap, dicts, node, newnode, segCtx, segT, toDecoder>>

\* Line 28, the decoder raises: nothing catches it.
SegDecodeRaise ==
    /\ pc = "seg_decode"
    /\ pc' = "seg_aborted"
    /\ UNCHANGED <<mainVars, heap, dicts, node, newnode, segCtx, segT, segS,
                   toDecoder>>

\* Line 31.
SegCleanup ==
    /\ pc = "seg_cleanup"
    /\ segS' = Some(RemoveShy(segS[1]))
    /\ pc' = "seg_extract"
    /\ UNCHANGED <<mainVars, heap, dicts, node, newnode, segCtx, segT, toDecoder>>

\* Lines 46-55 on the decoded segment.
SegExtract ==
    /\ pc = "seg_extract"
    /\ LET s == append_math(St, newnode, segS)
       IN heap' = s.heap /\ dicts' = s.dicts
    /\ pc' = "seg_return"
    /\ UNCHANGED <<mainVars, node, newnode, segCtx, segT, segS, toDecoder>>

\* Lines 61-63.
SegReturn ==
    /\ pc = "seg_return"
    /\ heap' = [heap EXCEPT ![newnode].tail = heap[node].tail]
    /\ pc' = "seg_done"
    /\ UNCHANGED <<mainVars, dicts, node, newnode, segCtx, segT, segS, toDecoder>>

SegNext ==
    \/ SegEnter
    \/ SegEscape
    \/ SegDecode
    \/ SegDecodeRaise
    \/ SegCleanup
    \/ SegExtract
    \/ SegReturn

SpecSeg == SegInit /\ [][SegNext]_vars

\* The statement-by-statement walk ends in the state detex_node computes.
SegAgreesWithDetexNode ==
    pc = "seg_done" =>
        LET s == detex_node(Load(Empty, SegField(segCtx, segT)), 1)
        IN s.heap = heap /\ s.dicts = dicts /\ s.ret = newnode

(***************************************************************************)
(* Segment-level properties.                                               *)
(***************************************************************************)

\* The slot that receives the segment's first plain-text run, and the
\* children that math extraction added for the segment.
SegFirstSlot ==
    IF segCtx = "text" THEN heap[newnode].text
    ELSE heap[heap[newnode].children[1]].tail

SegMath ==
    IF segCtx = "text" THEN heap[newnode].children
    ELSE Tail(heap[newnode].children)

SegExtracted == pc \in {"seg_return", "seg_done"}

Count(s, c) == Cardinality({i \in 1..Len(s) : s[i] = c})

\* The number of consecutive backslashes that end just before position i.
RECURSIVE BackslashesBefore(_, _)
BackslashesBefore(s, i) ==
    IF i > 1 /\ s[i - 1] = BS THEN 1 + BackslashesBefore(s, i - 1) ELSE 0

\* Text and tail contents in document order, each tex-math child's text
\* wrapped in $...$ again.
RECURSIVE Rewrapped(_, _)
Rewrapped(kids, i) ==
    IF i > Len(kids) THEN <<>>
    ELSE <<DOL>> \o OptStr(heap[kids[i]].text) \o <<DOL>>
         \o OptStr(heap[kids[i]].tail) \o Rewrapped(kids, i + 1)

\* C1: with d = detex(t) and n the number of $...$ pairs of d, extraction
\* adds exactly n tex-math children, and the runs it assigned together with
\* the children's texts wrapped in $...$ again spell d.
C1_ExtractionPreservesText ==
    SegExtracted =>
        /\ segS = detex(Some(segT))
        /\ Len(SegMath) = Count(segS[1], DOL) \div 2
        /\ \A k \in 1..Len(SegMath) : heap[SegMath[k]].tag = "tex-math"
        /\ OptStr(SegFirstSlot) \o Rewrapped(SegMath, 1) = segS[1]

C1_Witness ==
    /\ pc = "seg_done"
    /\ segCtx = "tail"
    /\ Len(SegMath) = 1
    /\ OptStr(SegFirstSlot) # <<>>
    /\ OptStr(heap[SegMath[1]].tail) # <<>>

\* C2: the text of every tex-math element is a stretch of the original
\* segment that lies between two $ of the original segment.
C2_MathTextIsRaw ==
    pc = "seg_done" =>
        \A k \in 1..Len(SegMath) :
            \E i \in 1..Len(segT) : \E j \in (i + 1)..Len(segT) :
                /\ segT[i] = DOL
                /\ segT[j] = DOL
                /\ heap[SegMath[k]].text = Some(SubSeq(segT, i + 1, j - 1))

\* The positions of the % of t that no backslash precedes.
BarePercents(t) == {i \in 1..Len(t) : t[i] = PCT /\ ~(i > 1 /\ t[i - 1] = BS)}

\* C5: in the string handed to the decoder every % follows a backslash, the
\* characters of the input (an input \% included) are all there in order with
\* one backslash added per bare %, and escaping again changes nothing.
C5_EscapeOnce ==
    toDecoder # None =>
        LET e == toDecoder[1]
            shift(i) == Cardinality({j \in BarePercents(segT) : j <= i})
        IN /\ \A i \in 1..Len(e) : e[i] = PCT => i > 1 /\ e[i - 1] = BS
           /\ Len(e) = Len(segT) + Cardinality(BarePercents(segT))
           /\ \A i \in 1..Len(segT) : e[i + shift(i)] = segT[i]
           /\ Escape(e) = e

C5_Witness ==
    /\ pc = "seg_decode"
    /\ toDecoder # None
    /\ \E i \in 2..Len(segT) : segT[i] = PCT /\ segT[i - 1] = BS
    /\ BarePercents(segT) # {}

\* The positions of the $ of t that follow an even number of backslashes.
UnescapedDollars(t) ==
    {i \in 1..Len(t) : t[i] = DOL /\ BackslashesBefore(t, i) % 2 = 0}

\* C8: spans are delimited by unescaped $ only: there are at most as many
\* spans as pairs of unescaped $ in the input, and no interior holds a $.
C8_OnlyUnescapedDelimit ==
    pc = "seg_done" =>
        /\ 2 * Len(SegMath) <= Cardinality(UnescapedDollars(segT))
        /\ \A k \in 1..Len(SegMath) : Count(OptStr(heap[SegMath[k]].text), DOL) = 0

\* C9: in the string handed to the decoder every % follows an odd number of
\* backslashes, so none of them starts a comment.
C9_NoCommentIntroducer ==
    toDecoder # None =>
        \A i \in 1..Len(toDecoder[1]) :
            toDecoder[1][i] = PCT => BackslashesBefore(toDecoder[1], i) % 2 = 1

\* C10: extraction assigns no zero-length run: no tex-math child gets an
\* empty-string tail, the new node's text is never the empty string, and a
\* child's tail becomes the empty string only if it was the empty string.
C10_NoEmptyRun ==
    pc = "seg_done" =>
        /\ \A k \in 1..Len(SegMath) : heap[SegMath[k]].tail # Some(<<>>)
        /\ segCtx = "text" => heap[newnode].text # Some(<<>>)
        /\ (segCtx = "tail" /\ segT # <<>>) => SegFirstSlot # Some(<<>>)

(***************************************************************************)
(* Document level: the main program.                                       *)
(***************************************************************************)

X == <<"x">>
MathX == <<DOL, "x", DOL>>

\* Inline children of a field.
K1 == Tree("i", <<<<"class", "b">>>>, Some(MathX), <<>>, Some(X \o MathX))
K2 == Tree("b", <<>>, Some(X), <<Tree("sub", <<>>, None, <<>>, Some(MathX))>>, None)

TitleSet ==
    {Tree("title", <<<<"lang", "en">>>>, t, ks, tl) :
        t \in {None, Some(MathX \o X)},
        ks \in {<<>>, <<K2>>, <<K1, K2>>},
        tl \in {None, Some(X)}}

Author == Tree("author", <<>>, Some(X), <<>>, Some(X))
Abstract == Tree("abstract", <<>>, Some(<<BS, PCT>>), <<>>, None)
Paper(kids) == Tree("paper", <<<<"id", "p">>>>, None, kids, None)

PaperSet ==
    {Paper(<<t>>) : t \in TitleSet}
    \cup {Paper(<<>>),
          Paper(<<Author, Tree("title", <<>>, Some(X \o MathX), <<>>, Some(X)),
                  Abstract>>),
          Paper(<<Tree("title", <<>>, Some(<<"x", PCT>>), <<>>, None),
                  Tree("title", <<>>, Some(MathX), <<>>, None)>>)}

Meta == Tree("meta", <<>>, Some(MathX), <<>>, None)

DocSet ==
    {Tree("volume", <<<<"id", "v">>>>, None, <<Meta>> \o ps, None) :
        ps \in UNION {[1..k -> PaperSet] : k \in 1..MaxPapers}}

Init ==
    /\ infile \in DocSet
    /\ fieldArgs \in {<<>>, <<"title">>, <<"title", "abstract">>}
    /\ outfile \in {None, Some("out")}
    /\ heap = <<>>
    /\ dicts = <<>>
    /\ pc = "start"
    /\ pi = 0
    /\ fi = 0
    /\ node = 0
    /\ newnode = 0
    /\ orig = <<>>
    /\ mod = <<>>
    /\ diag = <<>>
    /\ output = None
    /\ segCtx = "none"
    /\ segT = <<>>
    /\ segS = None
    /\ toDecoder = None

segVars == <<segCtx, segT, segS, toDecoder>>

\* The usage check that forgets the output path.
UsageErrorFieldOnly(fields, out) == Len(fields) = 0

\* Lines 79-84.
UsageError(fields, out) == Len(fields) = 0 \/ out = None

\* Lines 78-84: a usage error is reported and the process exits.
Start ==
    /\ pc = "start"
    /\ IF UsageError(fieldArgs, outfile)
       THEN /\ pc' = "usage_exit"
            /\ diag' = Append(diag, <<"error",
                                IF Len(fieldArgs) = 0 THEN "field" ELSE "outfile">>)
       ELSE /\ pc' = "parse"
            /\ diag' = diag
    /\ UNCHANGED <<heap, dicts, infile, fieldArgs, outfile, pi, fi, node, newnode,
                   orig, mod, output, segVars>>

\* Lines 86-88: the document is parsed; the root is object 1.
Parse ==
    /\ pc = "parse"
    /\ LET s == Load(Empty, infile)
       IN heap' = s.heap /\ dicts' = s.dicts
    /\ pi' = 1
    /\ fi' = 1
    /\ pc' = "loop"
    /\ UNCHANGED <<infile, fieldArgs, outfile, node, newnode, orig, mod, diag,
                   output, segVars>>

\* root.findall('paper'); the root's child list never changes during the run.
Papers == findall(St, 1, "paper")

\* Whether detex_node(n) hands some text to the decoder.
RECURSIVE CallsDecoder(_)
CallsDecoder(n) ==
    /\ n # 0
    /\ \/ heap[n].text # None
       \/ \E i \in 1..Len(heap[n].children) :
             \/ heap[heap[n].children[i]].tail # None
             \/ CallsDecoder(heap[n].children[i])

\* Lines 90-93: the field is looked up, transformed and both are serialized.
Transform ==
    /\ pc = "loop"
    /\ pi <= Len(Papers)
    /\ LET n == find(St, Papers[pi], fieldArgs[fi])
           s == detex_node(St, n)
       IN /\ node' = n
          /\ newnode' = s.ret
          /\ heap' = s.heap
          /\ dicts' = s.dicts
          /\ orig' = node_tostring(St, n)
          /\ mod' = node_tostring(s, s.ret)
    /\ pc' = "compare"
    /\ UNCHANGED <<infile, fieldArgs, outfile, pi, fi, diag, output, segVars>>

\* Line 91 when the decoder raises on one of the field's segments: the
\* exception is not caught and the run ends.
TransformRaise ==
    /\ pc = "loop"
    /\ pi <= Len(Papers)
    /\ CallsDecoder(find(St, Papers[pi], fieldArgs[fi]))
    /\ pc' = "aborted"
    /\ UNCHANGED <<heap, dicts, infile, fieldArgs, outfile, pi, fi, node, newnode,
                   orig, mod, diag, output, segVars>>

\* Element.clear(): the dictionary is emptied in place.
clear(st, n) ==
    [st EXCEPT !.dicts[st.heap[n].attrib] = <<>>,
               !.heap[n].children = <<>>,
               !.heap[n].text = None,
               !.heap[n].tail = None]

\* Lines 97-101 without line 100.
MergeNoTail(st, n, nn) ==
    LET s1 == clear(st, n)
        s2 == [s1 EXCEPT !.heap[n].attrib = s1.heap[nn].attrib]
        s3 == [s2 EXCEPT !.heap[n].text = s2.heap[nn].text]
    IN [s3 EXCEPT !.heap[n].children = @ \o s3.heap[nn].children]

\* Lines 97-101.
Merge(st, n, nn) ==
    LET s1 == clear(st, n)
        s2 == [s1 EXCEPT !.heap[n].attrib = s1.heap[nn].attrib]
        s3 == [s2 EXCEPT !.heap[n].text = s2.heap[nn].text]
        s4 == [s3 EXCEPT !.heap[n].tail = s3.heap[nn].tail]
    IN [s4 EXCEPT !.heap[n].children = @ \o s4.heap[nn].children]

\* The two for loops move on to the next field, then to the next paper.
Advance ==
    /\ IF fi < Len(fieldArgs)
       THEN fi' = fi + 1 /\ pi' = pi
       ELSE fi' = 1 /\ pi' = pi + 1
    /\ pc' = "loop"

\* Lines 94-101: the serializations differ.
Replace ==
    /\ pc = "compare"
    /\ orig # mod
    /\ diag' = Append(diag, <<dicts[heap[1].attrib][1][2],
                              dicts[heap[Papers[pi]].attrib][1][2], orig, mod>>)
    /\ LET s == Merge(St, node, newnode)
       IN heap' = s.heap /\ dicts' = s.dicts
    /\ Advance
    /\ UNCHANGED <<infile, fieldArgs, outfile, node, newnode, orig, mod, output,
                   segVars>>

\* Line 94: the serializations are equal, nothing is replaced.
Skip ==
    /\ pc = "compare"
    /\ orig = mod
    /\ Advance
    /\ UNCHANGED <<heap, dicts, infile, fieldArgs, outfile, node, newnode, orig,
                   mod, diag, output, segVars>>

\* Line 103.
Write ==
    /\ pc = "loop"
    /\ pi > Len(Papers)
    /\ output' = Some(Ser(St, 1))
    /\ pc' = "done"
    /\ UNCHANGED <<heap, dicts, infile, fieldArgs, outfile, pi, fi, node, newnode,
                   orig, mod, diag, segVars>>

Next ==
    \/ Start
    \/ Parse
    \/ Transform
    \/ TransformRaise
    \/ Replace
    \/ Skip
    \/ Write

Spec == Init /\ [][Next]_vars

(***************************************************************************)
(* Document-level properties.                                              *)
(***************************************************************************)

\* d cut at every $: the pieces between the delimiters.
RECURSIVE SplitFrom(_, _, _)
SplitFrom(d, i, cur) ==
    IF i > Len(d) THEN <<cur>>
    ELSE IF d[i] = DOL THEN <<cur>> \o SplitFrom(d, i + 1, <<>>)
    ELSE SplitFrom(d, i + 1, Append(cur, d[i]))

Pieces(d) == SplitFrom(d, 1, <<>>)
NSpans(d) == (Len(Pieces(d)) - 1) \div 2

\* The interior of span k, and the plain text after span k (before the first
\* span when k = 0); an unpaired last $ belongs to the last run.
MathOf(d, k) == Pieces(d)[2 * k]
RunOf(d, k) ==
    LET P == Pieces(d)
        n == NSpans(d)
    IN IF k < n THEN P[2 * k + 1]
       ELSE P[2 * n + 1] \o (IF Len(P) = 2 * n + 2 THEN <<DOL>> \o P[2 * n + 2]
                             ELSE <<>>)

ExpFirst(o) == IF o = None THEN <<>> ELSE RunOf(o[1], 0)
ExpMaths(o) ==
    IF o = None THEN <<>>
    ELSE [k \in 1..NSpans(o[1]) |->
             [kind |-> "math", orig |-> 0, text |-> MathOf(o[1], k),
              run |-> RunOf(o[1], k)]]

\* What the children of the transform of old must be, in order.
RECURSIVE ExpKids(_, _)
ExpKids(old, i) ==
    IF i > Len(heap[old].children) THEN <<>>
    ELSE LET c == heap[old].children[i]
             d == detex(heap[c].tail)
         IN <<[kind |-> "child", orig |-> c, text |-> <<>>, run |-> ExpFirst(d)]>>
            \o ExpMaths(d) \o ExpKids(old, i + 1)

Expected(old) == ExpMaths(detex(heap[old].text)) \o ExpKids(old, 1)

RECURSIVE IsTransformOf(_, _)
IsTransformOf(new, old) ==
    LET exp == Expected(old)
        kids == heap[new].children
    IN /\ heap[new].tag = heap[old].tag
       /\ dicts[heap[new].attrib] = dicts[heap[old].attrib]
       /\ OptStr(heap[new].text) = ExpFirst(detex(heap[old].text))
       /\ Len(kids) = Len(exp)
       /\ \A p \in 1..Len(exp) :
             /\ OptStr(heap[kids[p]].tail) = exp[p].run
             /\ IF exp[p].kind = "math"
                THEN /\ heap[kids[p]].tag = "tex-math"
                     /\ heap[kids[p]].text = Some(exp[p].text)
                     /\ heap[kids[p]].children = <<>>
                     /\ dicts[heap[kids[p]].attrib] = <<>>
                ELSE IsTransformOf(kids[p], exp[p].orig)

\* C3: the children of detex_node(node) are the tex-math children of
\* node.text, then per original child, in order, its transform followed by
\* the tex-math children of its tail; transformed children keep tag and
\* attributes, and every run sits in the new node's text or in the tail of
\* the child appended last before it.
C3_ChildOrder ==
    (pc = "compare" /\ node # 0) => IsTransformOf(newnode, node)

C3_Witness ==
    /\ pc = "compare"
    /\ node # 0
    /\ Len(heap[node].children) = 2
    /\ Len(heap[newnode].children) = 4
    /\ heap[heap[newnode].children[1]].tag = "tex-math"
    /\ heap[heap[newnode].children[3]].tag = "tex-math"

\* C4: detex_node leaves every object and dictionary that existed before the
\* call as it was, and the new objects' dictionaries are new ones, each its
\* own.
C4_InputNotMutated ==
    [][(pc = "loop" /\ pc' = "compare") =>
          /\ SubSeq(heap', 1, Len(heap)) = heap
          /\ SubSeq(dicts', 1, Len(dicts)) = dicts
          /\ \A a \in (Len(heap) + 1)..Len(heap') :
                /\ heap'[a].attrib > Len(dicts)
                /\ \A b \in (Len(heap) + 1)..Len(heap') :
                      heap'[a].attrib = heap'[b].attrib => a = b]_vars

C4_Witness ==
    /\ pc = "compare"
    /\ node # 0
    /\ orig # mod
    /\ dicts[heap[node].attrib] # <<>>
    /\ \E i \in 1..Len(heap[node].children) :
          dicts[heap[heap[node].children[i]].attrib] # <<>>

PositionIn(h, p, n) ==
    IF \E i \in 1..Len(h[p].children) : h[p].children[i] = n
    THEN CHOOSE i \in 1..Len(h[p].children) : h[p].children[i] = n
    ELSE 0

\* C7: replacing a changed field keeps the node object at its place in the
\* paper with its tag, gives it the transformed node's attributes, text and
\* children, and leaves its tail equal to the transformed node's tail, which
\* is the tail the field had.
C7_ReplaceInPlace ==
    [][(pc = "compare" /\ orig # mod) =>
          /\ heap'[Papers[pi]].children = heap[Papers[pi]].children
          /\ PositionIn(heap', Papers[pi], node) > 0
          /\ heap'[node].tag = heap[node].tag
          /\ dicts'[heap'[node].attrib] = dicts[heap[newnode].attrib]
          /\ heap'[node].text = heap[newnode].text
          /\ heap'[node].children = heap[newnode].children
          /\ heap'[node].tail = heap[newnode].tail
          /\ heap[newnode].tail = heap[node].tail]_vars

C7_Witness ==
    /\ pc = "loop"
    /\ diag # <<>>
    /\ node # 0
    /\ heap[node].tail # None
    /\ heap[node].children = heap[newnode].children
    /\ PositionIn(heap, Papers[1], node) = 2

====
